---- MODULE Spec2Model ----
(***************************************************************************)
(* Model of tei2slob (src/tei2slob/__init__.py): the document walker       *)
(* TEI.__iter__ with its include handling, the header extractor            *)
(* TEI._parse_header with normalize_ws, and the entry transformer          *)
(* TEI._parse_entry / TEI.mk_html_element.                                  *)
(*                                                                         *)
(* Strings the code takes apart (paths, class attributes, header texts)    *)
(* are sequences of one-character strings; texts the code only copies are  *)
(* TLA+ strings.  A path is the sequence of its "/"-separated segments,    *)
(* each segment a sequence of characters; only relative paths without      *)
(* empty segments are modelled, so two paths are the same Python string    *)
(* exactly when the two sequences are equal.                               *)
(***************************************************************************)
EXTENDS Naturals, Sequences, FiniteSets, TLC

VARIABLES
    input_file,    \* TEI.input_file: the path given to the constructor
    files,         \* per file name: the element-completion events read from it so far
    eof,           \* per file name: TRUE once the end of the file has been read
    todo_files,    \* __iter__: the to-do stack
    done_files,    \* __iter__: the set of normalized paths popped so far
    current_file,  \* __iter__: the normalized path being streamed
    pos,           \* number of iterparse events consumed from current_file
    element,       \* the element of the last iterparse event, as delivered
    emitted,       \* the items yielded while handling that event
    raised,        \* the path named by the raised exception (<<>>: none)
    opened,        \* per file name: how often it was opened (counted up to MaxOpens)
    pc,            \* "pending" | "streaming" | "done" | "error", or a pure-function stage
    src_text,      \* header run: the text handed to the license / copyright path
    src_entry      \* entry run: the entry element handed to _parse_entry

vars == <<input_file, files, eof, todo_files, done_files, current_file, pos,
          element, emitted, raised, opened, pc, src_text, src_entry>>

----------------------------------------------------------------------------
(* Bounds of the model *)

\* total number of elements (header, entry, include) over all files
MaxEvents == 3
\* the to-do stack is explored up to this length
MaxTodo == 3
\* opened[f] counts up to this value and then stays
MaxOpens == 2
\* length of the header texts given to normalize_ws
MaxLen == 4
\* number of element nodes below an entry in the entry runs
MaxNodes == 3

----------------------------------------------------------------------------
(* Generic helpers *)

Front(s) == SubSeq(s, 1, Len(s) - 1)

Last(s) == s[Len(s)]

Min(a, b) == IF a < b THEN a ELSE b

RECURSIVE SumLen(_, _)
SumLen(f, S) ==
    IF S = {} THEN 0
    ELSE LET x == CHOOSE y \in S : TRUE IN Len(f[x]) + SumLen(f, S \ {x})

----------------------------------------------------------------------------
(* Paths: os.path.dirname, os.path.join, os.path.normpath, basename_notext *)

DOT == <<".">>

DOTDOT == <<".", ".">>

\* os.path.dirname of a relative path: everything before the last "/"
DirName(p) == IF p = <<>> THEN <<>> ELSE Front(p)

\* os.path.join(d, h) for a relative h: h alone when d is empty
PathJoin(d, h) == IF d = <<>> THEN h ELSE d \o h

\* os.path.normpath on the segments: "." dropped, "x/.." collapsed,
\* leading ".." kept, the empty result is "."
RECURSIVE NormFold(_, _)
NormFold(p, acc) ==
    IF p = <<>> THEN acc
    ELSE LET s == Head(p) IN
         IF s = DOT THEN NormFold(Tail(p), acc)
         ELSE IF s = DOTDOT /\ acc # <<>> /\ Last(acc) # DOTDOT
              THEN NormFold(Tail(p), Front(acc))
              ELSE NormFold(Tail(p), Append(acc, s))

NormPath(p) == LET n == NormFold(p, <<>>) IN IF n = <<>> THEN <<DOT>> ELSE n

\* os.path.splitext on one segment: the extension starts at the last dot that
\* has a non-dot character somewhere before it
SplitExtAt(seg) ==
    LET dots == {i \in 1..Len(seg) :
                    /\ seg[i] = "."
                    /\ \E j \in 1..(i - 1) : seg[j] # "."}
    IN IF dots = {} THEN 0 ELSE CHOOSE i \in dots : \A k \in dots : k <= i

RECURSIVE StripExts(_)
StripExts(seg) ==
    LET i == SplitExtAt(seg) IN
    IF i = 0 THEN seg ELSE StripExts(SubSeq(seg, 1, i - 1))

basename_notext(path) == IF path = <<>> THEN <<>> ELSE StripExts(Last(path))

----------------------------------------------------------------------------
(* Strings as sequences of characters *)

SP == " "

WsChars == {" ", "\n", "\t"}

IsWs(c) == c \in WsChars

RECURSIVE LStrip(_)
LStrip(s) == IF s # <<>> /\ IsWs(Head(s)) THEN LStrip(Tail(s)) ELSE s

RECURSIVE RStrip(_)
RStrip(s) == IF s # <<>> /\ IsWs(Last(s)) THEN RStrip(Front(s)) ELSE s

\* str.strip()
Strip(s) == RStrip(LStrip(s))

\* str.rstrip('/')
RECURSIVE RStripSlash(_)
RStripSlash(s) == IF s # <<>> /\ Last(s) = "/" THEN RStripSlash(Front(s)) ELSE s

\* ' '.join(parts)
RECURSIVE JoinSp(_)
JoinSp(parts) ==
    IF parts = <<>> THEN <<>>
    ELSE IF Len(parts) = 1 THEN parts[1]
    ELSE parts[1] \o <<SP>> \o JoinSp(Tail(parts))

\* re.sub(r'\s+', ' ', s): every maximal run of whitespace becomes one space
RECURSIVE normalize_ws(_)
normalize_ws(s) ==
    IF s = <<>> THEN <<>>
    ELSE IF IsWs(Head(s)) THEN <<SP>> \o normalize_ws(LStrip(s))
    ELSE <<Head(s)>> \o normalize_ws(Tail(s))

----------------------------------------------------------------------------
(* Items and qualified tag names *)

ARTICLE_CONTENT_TYPE == "text/html;charset=utf-8"

Tag(name, value) == [item |-> "Tag", name |-> name, value |-> value]

Content(text, keys, type) ==
    [item |-> "Content", text |-> text, keys |-> keys, type |-> type]

NS == "http://www.tei-c.org/ns/1.0"

\* a qualified name "{namespace}local" is the pair <<namespace, local>>
ns(name) == <<NS, name>>

\* name.split('}')[1]
strip_ns(name) == name[2]

TAG_HEADER == ns(<<"t", "e", "i", "H", "e", "a", "d", "e", "r">>)

TAG_ENTRY == ns(<<"e", "n", "t", "r", "y">>)

TAG_INCLUDE == <<"http://www.w3.org/2001/XInclude", <<"i", "n", "c", "l", "u", "d", "e">>>>

\* some other element of the document (its completion matches no branch)
TAG_OTHER == ns(<<"b", "o", "d", "y">>)

----------------------------------------------------------------------------
(* TEI._parse_header.  A header element is given by what the fixed paths    *)
(* find in it: title and edition text, the target attributes, the text of   *)
(* the license reference and of the availability paragraph ('' when the     *)
(* path matches nothing, as text() and attr() return).                      *)

NoHeader ==
    [title |-> <<>>, edition |-> <<>>, source |-> <<>>, origin |-> <<>>,
     license_text |-> <<>>, license_url |-> <<>>, copyright |-> <<>>]

_parse_header(hdr, infile) ==
    LET source == hdr.source
        noext == basename_notext(infile)
        uri == IF source # <<>> THEN RStripSlash(source) \o <<"/">> \o noext
               ELSE noext
    IN << Tag("label", hdr.title),
          Tag("edition", hdr.edition),
          Tag("source", source),
          Tag("origin", hdr.origin),
          Tag("uri", uri),
          Tag("license.name", normalize_ws(hdr.license_text)),
          Tag("license.url", hdr.license_url),
          Tag("copyright", normalize_ws(hdr.copyright)) >>

----------------------------------------------------------------------------
(* Source elements and HTML elements.                                       *)
(* A source node is [tag, type, text, kids]: its qualified tag, the value   *)
(* of its type attribute (<<>> when absent or empty: both are falsy in      *)
(* `if type_attr`), its own text and its child nodes.  An HTML element is   *)
(* [tag, attrib, text, kids] with attrib a function from attribute names.   *)

SENSE == <<"s", "e", "n", "s", "e">>

CIT == <<"c", "i", "t">>

QUOTE == <<"q", "u", "o", "t", "e">>

DEFN == <<"d", "e", "f">>

FORM == <<"f", "o", "r", "m">>

ORTH == <<"o", "r", "t", "h">>

SINGLE == <<"s", "i", "n", "g", "l", "e">>

\* the tuple ('sense', 'cit', 'quote') of mk_html_element
GroupTags == {SENSE, CIT, QUOTE}

NoAttrib == <<>>

\* `lists = {}`
NoLists == [t \in {} |-> 0]

Element(tag, attrib) == [tag |-> tag, attrib |-> attrib, text |-> "", kids |-> <<>>]

\* etree.SubElement(parent, tag, attrib): the parent with the new child last
SubElement(parent, tag, attrib) ==
    [parent EXCEPT !.kids = Append(@, Element(tag, attrib))]

\* TEI.mk_entry_root: html with head (two stylesheet links) and script
mk_entry_root ==
    LET link1 == Element("link", [rel |-> "stylesheet", type |-> "text/css",
                                  href |-> "~/css/default.css"])
        link2 == Element("link", [rel |-> "alternate stylesheet", type |-> "text/css",
                                  title |-> "Night", href |-> "~/css/night.css"])
        head == [Element("head", NoAttrib) EXCEPT !.kids = <<link1, link2>>]
        script == Element("script", [src |-> "~/js/styleswitcher.js"])
    IN [Element("html", NoAttrib) EXCEPT !.kids = <<head, script>>]

\* a mutant of NeedsNewList: a list is never reused
NeedsNewListAlways(lists, tag) == TRUE

\* `lists.get(tag) is None`: no list was created for tag in this scope yet
NeedsNewList(lists, tag) == tag \notin DOMAIN lists

\* a mutant of IsSingle: every list is marked
IsSingleAny(ol) == Len(ol.kids) >= 1

\* `len(ol) == 1`
IsSingle(ol) == Len(ol.kids) = 1

\* the loop `for ol in lists.values()`: ' single' appended to the class of
\* every list of this scope that holds one item.  lists maps a grouping tag to
\* the position of its ol among the children of html_parent.
MarkSingle(html_parent, lists) ==
    LET marked == {lists[t] : t \in DOMAIN lists}
    IN [html_parent EXCEPT !.kids =
          [i \in 1..Len(html_parent.kids) |->
             IF i \in marked /\ IsSingle(html_parent.kids[i])
             THEN [html_parent.kids[i] EXCEPT
                     !.attrib = [@ EXCEPT !["class"] = @ \o <<SP>> \o SINGLE]]
             ELSE html_parent.kids[i]]]

\* TEI.mk_html_element(element, html_parent): html_parent with the children of
\* element rendered into it.  MkLoop is the body of `for child in element`
\* from child i on, with the lists registry of this call.
RECURSIVE mk_html_element(_, _)
RECURSIVE MkLoop(_, _, _, _)
MkLoop(children, i, html_parent, lists) ==
    IF i > Len(children) THEN MarkSingle(html_parent, lists)
    ELSE
      LET child == children[i]
          tag == strip_ns(child.tag)
          type_attr == child.type
          classes == IF type_attr # <<>> THEN <<tag, type_attr>> ELSE <<tag>>
          attribs == [class |-> Strip(JoinSp(classes))]
      IN IF tag \in GroupTags
         THEN
           LET fresh == NeedsNewList(lists, tag)
               parent1 == IF fresh
                          THEN SubElement(html_parent, "ol", [class |-> tag])
                          ELSE html_parent
               lists1 == IF fresh THEN lists @@ (tag :> Len(parent1.kids)) ELSE lists
               at == lists1[tag]
               li == [Element("li", attribs) EXCEPT !.text = child.text]
               html_element == mk_html_element(child, li)
           IN MkLoop(children, i + 1,
                     [parent1 EXCEPT !.kids[at].kids = Append(@, html_element)],
                     lists1)
         ELSE
           LET div == [Element("div", attribs) EXCEPT !.text = child.text]
               html_element == mk_html_element(child, div)
           IN MkLoop(children, i + 1,
                     [html_parent EXCEPT !.kids = Append(@, html_element)],
                     lists)

mk_html_element(elem, html_parent) == MkLoop(elem.kids, 1, html_parent, NoLists)

\* the descendants of node tagged t, in document order
RECURSIVE Descendants(_, _)
RECURSIVE DescendantsOfAll(_, _)
DescendantsOfAll(nodes, t) ==
    IF nodes = <<>> THEN <<>>
    ELSE (IF Head(nodes).tag = t THEN <<Head(nodes)>> ELSE <<>>)
         \o Descendants(Head(nodes), t) \o DescendantsOfAll(Tail(nodes), t)

Descendants(node, t) == DescendantsOfAll(node.kids, t)

\* element.findall('./t:form//t:orth')
RECURSIVE FindOrths(_)
FindOrths(children) ==
    IF children = <<>> THEN <<>>
    ELSE (IF Head(children).tag = ns(FORM)
          THEN Descendants(Head(children), ns(ORTH)) ELSE <<>>)
         \o FindOrths(Tail(children))

\* [orth.text for orth in orths if orth.text]
RECURSIVE Titles(_)
Titles(orths) ==
    IF orths = <<>> THEN <<>>
    ELSE (IF Head(orths).text # "" THEN <<Head(orths).text>> ELSE <<>>)
         \o Titles(Tail(orths))

\* a mutant of _parse_entry: an entry without headwords yields nothing
parse_entry_skip(elem) ==
    LET titles == Titles(FindOrths(elem.kids))
        root == SubElement(mk_entry_root, "body", NoAttrib)
        body == mk_html_element(elem, root.kids[3])
    IN IF titles = <<>> THEN <<>>
       ELSE << Content([root EXCEPT !.kids[3] = body], titles, ARTICLE_CONTENT_TYPE) >>

\* TEI._parse_entry: the items it yields.  Content.text is the html tree that
\* etree.tostring serializes.
_parse_entry(elem) ==
    LET titles == Titles(FindOrths(elem.kids))
        root == SubElement(mk_entry_root, "body", NoAttrib)
        body == mk_html_element(elem, root.kids[3])
    IN << Content([root EXCEPT !.kids[3] = body], titles, ARTICLE_CONTENT_TYPE) >>

----------------------------------------------------------------------------
(* The document walk, TEI.__iter__ *)

A == <<"A">>

B == <<"B">>

C == <<"C">>

\* the files of the directory of the input file, by name
Names == {A, B, C}

\* the ways the input file is written on the command line
InputFiles == {<<A>>, <<DOT, A>>}

\* the href values of the include directives
Hrefs == {<<n>> : n \in Names} \cup {<<DOT, n>> : n \in Names}

\* the file a path names: the last segment of its normalized form
FileOf(p) == Last(NormPath(p))

\* what iterparse can deliver next: the tag of a completed element and, for an
\* include directive, its href
Events ==
    {[tag |-> t, href |-> <<>>] : t \in {TAG_HEADER, TAG_ENTRY, TAG_OTHER}}
    \cup {[tag |-> TAG_INCLUDE, href |-> h] : h \in Hrefs}

Node(tag, type, text, kids) == [tag |-> tag, type |-> type, text |-> text, kids |-> kids]

Leaf(tag, text) == Node(ns(tag), <<>>, text, <<>>)

\* the entry bodies met in a walk: no form, an orth without text, one
\* headword, and headwords around an empty orth with two senses following
WalkEntries ==
    { <<>>,
      << Node(ns(FORM), <<>>, "", << Leaf(ORTH, "") >>) >>,
      << Node(ns(FORM), <<>>, "", << Leaf(ORTH, "cat") >>), Leaf(SENSE, "1") >>,
      << Node(ns(FORM), <<>>, "", << Leaf(ORTH, "a"), Leaf(ORTH, ""), Leaf(ORTH, "b") >>),
         Leaf(SENSE, "1"), Leaf(SENSE, "2") >> }

\* the headers met in a walk
WalkHeaders ==
    { NoHeader,
      [NoHeader EXCEPT !.title = <<"T">>, !.source = <<"u", "/">>,
                       !.license_text = <<" ", "G", "\n", " ", "P">>] }

NoElement == [tag |-> <<"", <<>>>>, href |-> <<>>, hdr |-> NoHeader, kids |-> <<>>]

\* the elements iterparse can deliver for an event
ElementsOf(ev) ==
    IF ev.tag = TAG_HEADER
    THEN {[NoElement EXCEPT !.tag = ev.tag, !.hdr = h] : h \in WalkHeaders}
    ELSE IF ev.tag = TAG_ENTRY
    THEN {[NoElement EXCEPT !.tag = ev.tag, !.kids = k] : k \in WalkEntries}
    ELSE {[NoElement EXCEPT !.tag = ev.tag, !.href = ev.href]}

Init ==
    /\ input_file \in InputFiles
    /\ files = [n \in Names |-> <<>>]
    /\ eof = [n \in Names |-> FALSE]
    /\ todo_files = <<input_file>>
    /\ done_files = {}
    /\ current_file = <<>>
    /\ pos = 0
    /\ element = NoElement
    /\ emitted = <<>>
    /\ raised = <<>>
    /\ opened = [n \in Names |-> 0]
    /\ pc = "pending"
    /\ src_text = <<>>
    /\ src_entry = <<>>

\* a mutant of PopIndex: the oldest entry is taken
PopIndexFirst(todo) == 1

\* list.pop(): the position of the entry taken from the to-do stack
PopIndex(todo) == Len(todo)

\* the list without its entry i
RemoveAt(s, i) == SubSeq(s, 1, i - 1) \o SubSeq(s, i + 1, Len(s))

\* `while todo_files:` taken, then lines 168-171: pop, normalize, record, open
Pop ==
    /\ pc = "pending"
    /\ todo_files # <<>>
    /\ LET i == PopIndex(todo_files)
           cur == NormPath(todo_files[i])
       IN /\ current_file' = cur
          /\ todo_files' = RemoveAt(todo_files, i)
          /\ done_files' = done_files \cup {cur}
          /\ opened' = [opened EXCEPT ![FileOf(cur)] = Min(@ + 1, MaxOpens)]
    /\ pos' = 0
    /\ pc' = "streaming"
    /\ emitted' = <<>>
    /\ element' = NoElement
    /\ UNCHANGED <<input_file, files, eof, raised, src_text, src_entry>>

\* `while todo_files:` not taken: the generator returns
Finish ==
    /\ pc = "pending"
    /\ todo_files = <<>>
    /\ pc' = "done"
    /\ emitted' = <<>>
    /\ UNCHANGED <<input_file, files, eof, todo_files, done_files, current_file,
                   pos, element, raised, opened, src_text, src_entry>>

\* os.path.join(os.path.dirname(self.input_file), element.attrib['href'])
IncludeFile(href) == PathJoin(DirName(input_file), href)

\* `include_file in done_files`
IsDone(include_file) == include_file \in done_files

\* the body of the for loop (lines 173-189) for one delivered element; a push
\* is explored while the stack is shorter than MaxTodo
Handle(el) ==
    /\ element' = el
    /\ pos' = pos + 1
    /\ IF el.tag = TAG_HEADER
       THEN /\ emitted' = _parse_header(el.hdr, input_file)
            /\ UNCHANGED <<todo_files, raised, pc>>
       ELSE IF el.tag = TAG_ENTRY
       THEN /\ emitted' = _parse_entry(el)
            /\ UNCHANGED <<todo_files, raised, pc>>
       ELSE IF el.tag = TAG_INCLUDE
       THEN /\ emitted' = <<>>
            /\ IF IsDone(IncludeFile(el.href))
               THEN /\ raised' = IncludeFile(el.href)
                    /\ pc' = "error"
                    /\ UNCHANGED todo_files
               ELSE /\ Len(todo_files) < MaxTodo
                    /\ todo_files' = Append(todo_files, IncludeFile(el.href))
                    /\ UNCHANGED <<raised, pc>>
       ELSE /\ emitted' = <<>>
            /\ UNCHANGED <<todo_files, raised, pc>>

CurName == FileOf(current_file)

\* the next element of a file is one read before (the file is streamed again)
Replay ==
    /\ pc = "streaming"
    /\ pos < Len(files[CurName])
    /\ LET ev == files[CurName][pos + 1]
       IN \E el \in ElementsOf(ev) : Handle(el)
    /\ UNCHANGED <<input_file, files, eof, done_files, current_file, opened,
                   src_text, src_entry>>

\* the next element of a file is read for the first time
Read ==
    /\ pc = "streaming"
    /\ pos = Len(files[CurName])
    /\ ~eof[CurName]
    /\ SumLen(files, Names) < MaxEvents
    /\ \E ev \in Events :
         /\ files' = [files EXCEPT ![CurName] = Append(@, ev)]
         /\ \E el \in ElementsOf(ev) : Handle(el)
    /\ UNCHANGED <<input_file, eof, done_files, current_file, opened,
                   src_text, src_entry>>

\* iterparse is exhausted: the for loop ends, back to `while todo_files:`
EndOfFile ==
    /\ pc = "streaming"
    /\ pos = Len(files[CurName])
    /\ eof' = [eof EXCEPT ![CurName] = TRUE]
    /\ pc' = "pending"
    /\ emitted' = <<>>
    /\ UNCHANGED <<input_file, files, todo_files, done_files, current_file, pos,
                   element, raised, opened, src_text, src_entry>>

Next == Pop \/ Finish \/ Replay \/ Read \/ EndOfFile

Spec == Init /\ [][Next]_vars

\* the consumer keeps pulling: a walk that can take a step takes one
FairSpec == Spec /\ WF_vars(Next)

----------------------------------------------------------------------------
(* Header runs: _parse_header on a header whose license reference or        *)
(* availability paragraph holds a given text.                               *)

TextChars == {" ", "\n", "\t", "a", "b"}

RECURSIVE StringsOfLen(_)
StringsOfLen(n) ==
    IF n = 0 THEN {<<>>}
    ELSE {<<c>> \o s : c \in TextChars, s \in StringsOfLen(n - 1)}

Texts == UNION {StringsOfLen(n) : n \in 0..MaxLen}

InitHeader ==
    /\ input_file \in InputFiles
    /\ src_text \in Texts
    /\ pc = "header"
    /\ files = [n \in Names |-> <<>>]
    /\ eof = [n \in Names |-> FALSE]
    /\ todo_files = <<>>
    /\ done_files = {}
    /\ current_file = <<>>
    /\ pos = 0
    /\ element = NoElement
    /\ emitted = <<>>
    /\ raised = <<>>
    /\ opened = [n \in Names |-> 0]
    /\ src_entry = <<>>

\* the header element is complete: `yield from self._parse_header(element)`
ParseHeader ==
    /\ pc = "header"
    /\ \E h \in {[NoHeader EXCEPT !.license_text = src_text],
                 [NoHeader EXCEPT !.copyright = src_text]} :
         /\ element' = [NoElement EXCEPT !.tag = TAG_HEADER, !.hdr = h]
         /\ emitted' = _parse_header(h, input_file)
    /\ pc' = "header_done"
    /\ UNCHANGED <<input_file, files, eof, todo_files, done_files, current_file,
                   pos, raised, opened, src_text, src_entry>>

NextHeader == ParseHeader

SpecHeader == InitHeader /\ [][NextHeader]_vars

----------------------------------------------------------------------------
(* Entry runs: the parser builds an entry of at most MaxNodes elements,     *)
(* one start tag at a time, and _parse_entry runs on its completion.        *)

EntryTags == {SENSE, CIT, QUOTE, DEFN}

\* values of the type attribute: absent, plain, with spaces around
EntryTypes == {<<>>, <<"x">>, <<" ", "x", " ">>}

Digits == <<"1", "2", "3", "4", "5", "6", "7", "8", "9">>

RECURSIVE CountNodes(_)
CountNodes(forest) ==
    IF forest = <<>> THEN 0
    ELSE 1 + CountNodes(Head(forest).kids) + CountNodes(Tail(forest))

\* the number of elements still open below the entry: the length of the path
\* from the entry along the last children
RECURSIVE OpenDepth(_)
OpenDepth(forest) ==
    IF forest = <<>> THEN 0 ELSE 1 + OpenDepth(Last(forest).kids)

\* a start tag read with d elements left open: the new node becomes the last
\* child of the open element at depth d.  Its text is its position among its
\* siblings.
RECURSIVE AddChild(_, _, _, _)
AddChild(forest, d, tag, type) ==
    IF d = 0
    THEN Append(forest, Node(ns(tag), type, Digits[Len(forest) + 1], <<>>))
    ELSE [forest EXCEPT ![Len(forest)].kids = AddChild(@, d - 1, tag, type)]

InitEntry ==
    /\ input_file = <<A>>
    /\ src_entry = <<>>
    /\ pc = "entry"
    /\ files = [n \in Names |-> <<>>]
    /\ eof = [n \in Names |-> FALSE]
    /\ todo_files = <<>>
    /\ done_files = {}
    /\ current_file = <<>>
    /\ pos = 0
    /\ element = NoElement
    /\ emitted = <<>>
    /\ raised = <<>>
    /\ opened = [n \in Names |-> 0]
    /\ src_text = <<>>

\* the parser reads the start tag of one more element of the entry
StartElement ==
    /\ pc = "entry"
    /\ CountNodes(src_entry) < MaxNodes
    /\ \E d \in 0..OpenDepth(src_entry), t \in EntryTags, ty \in EntryTypes :
         src_entry' = AddChild(src_entry, d, t, ty)
    /\ UNCHANGED <<input_file, files, eof, todo_files, done_files, current_file,
                   pos, element, emitted, raised, opened, pc, src_text>>

\* the entry element is complete: `yield from self._parse_entry(element)`
ParseEntry ==
    /\ pc = "entry"
    /\ element' = [NoElement EXCEPT !.tag = TAG_ENTRY, !.kids = src_entry]
    /\ emitted' = _parse_entry(element')
    /\ pc' = "entry_done"
    /\ UNCHANGED <<input_file, files, eof, todo_files, done_files, current_file,
                   pos, raised, opened, src_text, src_entry>>

NextEntry == StartElement \/ ParseEntry

SpecEntry == InitEntry /\ [][NextEntry]_vars

----------------------------------------------------------------------------
(* Vocabulary of the properties *)

Range(s) == {s[i] : i \in 1..Len(s)}

\* the whitespace-separated words of a string, in order
RECURSIVE WordsFrom(_, _)
WordsFrom(s, word) ==
    IF s = <<>> THEN (IF word = <<>> THEN <<>> ELSE <<word>>)
    ELSE IF IsWs(Head(s))
         THEN (IF word = <<>> THEN <<>> ELSE <<word>>) \o WordsFrom(Tail(s), <<>>)
         ELSE WordsFrom(Tail(s), Append(word, Head(s)))

Words(s) == WordsFrom(s, <<>>)

\* the file an include directive of the walked document resolves to
TargetOf(ev) == FileOf(IncludeFile(ev.href))

\* file f holds an include directive for file g at position i
IncludesAt(f, i, g) ==
    /\ i \in 1..Len(files[f])
    /\ files[f][i].tag = TAG_INCLUDE
    /\ TargetOf(files[f][i]) = g

Includes(f, g) == \E i \in 1..Len(files[f]) : IncludesAt(f, i, g)

IncludesTwice(f, g) ==
    \E i, j \in 1..Len(files[f]) : i < j /\ IncludesAt(f, i, g) /\ IncludesAt(f, j, g)

Root == FileOf(input_file)

Ended == pc \in {"done", "error"}

----------------------------------------------------------------------------
(* The document walk: C1, C2, C3, C4, C9, C10 *)

\* C1: in a walk no file is streamed more than once: of the to-do entries
\* whose paths normalize to the same path at most one is opened and parsed.
C1_NoFileStreamedTwice == \A n \in Names : opened[n] <= 1

\* C2: when the root document holds two include directives for the same file
\* b, and b does not include the root, the walk does not run to its end but
\* raises, and b is not streamed a second time.
C2_DuplicateIncludeRejected ==
    \A b \in Names \ {Root} :
        (eof[Root] /\ eof[b] /\ IncludesTwice(Root, b) /\ ~Includes(b, Root))
            => (pc # "done" /\ opened[b] <= 1)

\* C3: when the root document includes b and b includes the root again, the
\* root is never streamed a second time and the walk does not run to its end,
\* however the input path and the href values are written.
C3_CycleRaisesBeforeSecondVisit ==
    \A b \in Names \ {Root} :
        (Includes(Root, b) /\ Includes(b, Root))
            => (pc # "done" /\ opened[Root] <= 1)

\* C4: a consumer that keeps pulling eventually sees the walk end, done or
\* raised (the runs in which the to-do stack reaches the explored length
\* MaxTodo are left out of the statement).
C4_WalkEnds == <>(Ended \/ Len(todo_files) >= MaxTodo)

\* the texts of the orth elements below the form children of an element
OrthTexts(el) == {o.text : o \in Range(FindOrths(el.kids))}

\* C9: every completed entry element yields exactly one Content, at its
\* completion and also when it has no headword; the keys are the non-empty
\* orth texts, so they are empty when there is none and never hold an empty
\* string; no other element yields a Content.
C9_OneContentPerEntry ==
    (pc = "streaming" /\ pos > 0) =>
        IF element.tag = TAG_ENTRY
        THEN /\ Len(emitted) = 1
             /\ emitted[1].item = "Content"
             /\ emitted[1].type = ARTICLE_CONTENT_TYPE
             /\ Range(emitted[1].keys) = OrthTexts(element) \ {""}
             /\ (OrthTexts(element) \subseteq {""} => emitted[1].keys = <<>>)
        ELSE \A i \in 1..Len(emitted) : emitted[i].item = "Tag"

C9_Witness ==
    /\ pc = "streaming"
    /\ pos > 0
    /\ element.tag = TAG_ENTRY
    /\ OrthTexts(element) = {""}
    /\ Len(emitted) = 1
    /\ emitted[1].keys = <<>>

\* a step that begins the streaming of a file
Opens == pc' = "streaming" /\ (pc # "streaming" \/ current_file' # current_file \/ pos' <= pos)

\* C10: inclusion is deferred and last-in-first-out.  Items are yielded only by
\* a step over the file being streamed; an include directive only appends its
\* path to the to-do stack; a file is opened only after the file streamed
\* before it was read to its end, and it is the one pushed last.
C10_DeferredLifo ==
    [][ /\ emitted' # <<>> =>
            (pc = "streaming" /\ current_file' = current_file /\ pos' = pos + 1)
        /\ (todo_files' # todo_files /\ ~Opens) =>
            /\ element'.tag = TAG_INCLUDE
            /\ todo_files' = Append(todo_files, IncludeFile(element'.href))
            /\ current_file' = current_file
        /\ Opens =>
            /\ pc = "pending"
            /\ current_file # <<>> => (eof[CurName] /\ pos = Len(files[CurName]))
            /\ todo_files # <<>>
            /\ current_file' = NormPath(Last(todo_files))
            /\ todo_files' = Front(todo_files)
      ]_vars

\* the root holds directives for b and then for c and an entry after them; c is
\* being streamed while b, never opened so far, still waits on the stack
C10_Witness ==
    \E b, c \in Names \ {Root} :
        /\ b # c
        /\ IncludesAt(Root, 1, b)
        /\ IncludesAt(Root, 2, c)
        /\ Len(files[Root]) = 3
        /\ files[Root][3].tag = TAG_ENTRY
        /\ pc = "streaming"
        /\ CurName = c
        /\ opened[b] = 0
        /\ Len(todo_files) = 1
        /\ FileOf(todo_files[1]) = b

----------------------------------------------------------------------------
(* The entry transformer and the header extractor: C5, C6, C7, C8 *)

\* the body element of the rendering yielded by the entry run
Body == emitted[1].text.kids[3]

\* an element and all elements below it, in document order
RECURSIVE ElementsOf_(_)
RECURSIVE ElementsBelow(_)
ElementsBelow(els) ==
    IF els = <<>> THEN <<>>
    ELSE ElementsOf_(Head(els)) \o ElementsBelow(Tail(els))

ElementsOf_(el) == <<el>> \o ElementsBelow(el.kids)

Rendered == ElementsBelow(Body.kids)

ClassWords(el) == Words(el.attrib.class)

IsListOf(el, g) == el.tag = "ol" /\ g \in Range(ClassWords(el))

\* el renders a source node with the children kids: for each grouping tag g
\* with children among kids, el has exactly one ol of class g as a child, with
\* one li per such child in their order, each li rendering its child in the
\* same way; the other children are rendered by the div children of el.
RECURSIVE Grouped(_, _)
Grouped(kids, el) ==
    LET IsPlainNode(k) == strip_ns(k.tag) \notin GroupTags
        IsDiv(e) == e.tag = "div"
        plain == SelectSeq(kids, IsPlainNode)
        divs == SelectSeq(el.kids, IsDiv)
    IN /\ \A g \in GroupTags :
            LET IsG(k) == strip_ns(k.tag) = g
                IsOlG(e) == IsListOf(e, g)
                gkids == SelectSeq(kids, IsG)
                ols == SelectSeq(el.kids, IsOlG)
            IN gkids # <<>> =>
                 /\ Len(ols) = 1
                 /\ Len(ols[1].kids) = Len(gkids)
                 /\ \A i \in 1..Len(gkids) :
                      /\ ols[1].kids[i].tag = "li"
                      /\ ols[1].kids[i].text = gkids[i].text
                      /\ Grouped(gkids[i].kids, ols[1].kids[i])
       /\ Len(divs) = Len(plain)
       /\ \A i \in 1..Len(plain) :
            /\ divs[i].text = plain[i].text
            /\ Grouped(plain[i].kids, divs[i])

\* C5: for every source node and grouping tag g with children of the node
\* tagged g, the element rendered for the node has exactly one ol of class g
\* as a direct child, with one li per such child in document order, adjacent
\* or not; children of different parents are in different lists.
C5_OneListPerParent == pc = "entry_done" => Grouped(src_entry, Body)

\* two senses with a def between them, the first with a sense of its own
C5_Witness ==
    /\ pc = "entry_done"
    /\ Len(src_entry) = 3
    /\ strip_ns(src_entry[1].tag) = SENSE
    /\ strip_ns(src_entry[2].tag) = DEFN
    /\ strip_ns(src_entry[3].tag) = SENSE
    /\ Len(Body.kids) = 2
    /\ Len(Body.kids[1].kids) = 2

Count(s, x) == Cardinality({i \in 1..Len(s) : s[i] = x})

\* C6: in the finished rendering an ol carries the class token `single`
\* exactly when it holds one li, and carries it at most once.
C6_SingleIffOneItem ==
    pc = "entry_done" =>
        \A i \in 1..Len(Rendered) :
            LET el == Rendered[i] IN
            el.tag = "ol" =>
                /\ (Count(ClassWords(el), SINGLE) >= 1) <=> (Len(el.kids) = 1)
                /\ Count(ClassWords(el), SINGLE) <= 1
                /\ \A k \in 1..Len(el.kids) : el.kids[k].tag = "li"

\* a list of one item and a list of two items in the same rendering
C6_Witness ==
    /\ pc = "entry_done"
    /\ \E i, j \in 1..Len(Rendered) :
         /\ Rendered[i].tag = "ol" /\ Len(Rendered[i].kids) = 1
         /\ Count(ClassWords(Rendered[i]), SINGLE) = 1
         /\ Rendered[j].tag = "ol" /\ Len(Rendered[j].kids) = 2
         /\ Count(ClassWords(Rendered[j]), SINGLE) = 0

CleanClass(c) ==
    /\ c # <<>>
    /\ ~IsWs(c[1])
    /\ ~IsWs(c[Len(c)])
    /\ \A i \in 1..(Len(c) - 1) : ~(c[i] = SP /\ c[i + 1] = SP)

\* C7: every class attribute of the rendering (on div, li and ol) is non-empty,
\* has no whitespace at either end and no two consecutive spaces, whatever the
\* type attributes of the source are.
C7_ClassesClean ==
    pc = "entry_done" =>
        \A i \in 1..Len(Rendered) :
            Rendered[i].tag \in {"div", "li", "ol"} => CleanClass(Rendered[i].attrib.class)

\* each run of whitespace collapsed to one space, both ends trimmed
CollapsedAndTrimmed(s) == JoinSp(Words(s))

TagValue(name) == (CHOOSE i \in Range(emitted) : i.name = name).value

\* C8: the license.name and copyright tags hold their header text with each
\* run of whitespace collapsed to one space and both ends trimmed.
C8_NormalizeWsTrims ==
    pc = "header_done" =>
        /\ TagValue("license.name") = CollapsedAndTrimmed(element.hdr.license_text)
        /\ TagValue("copyright") = CollapsedAndTrimmed(element.hdr.copyright)

====
